---- MODULE Spec2Model ----
(***************************************************************************)
(* Model of train.py: the command-line entry point `main`, the config      *)
(* resolution (load_with_defaults / get_resuming_config), the rank-zero     *)
(* guarded validator verify_config, get_loggers, and the sequence of steps  *)
(* main performs up to trainer.fit.  Every launched process (rank) runs     *)
(* main with the same command line against one shared file system.          *)
(***************************************************************************)
EXTENDS Integers, Sequences, FiniteSets, TLC

\* ------------------------------------------------------------------ bounds
NumRanks == 2          \* processes of a distributed launch (ranks 0..NumRanks-1)
MaxConcepts == 3       \* longest concepts list given to verify_config alone
MaxRunConcepts == 1    \* longest concepts list in a whole run of main

\* ------------------------------------------------------------------ values
None == "None"                 \* Python's None, where the value is a string
Null == [null |-> TRUE]        \* a variable of main not bound yet (an object)
NoPath == <<>>                 \* None, where the value is a path

Ranks == 0 .. (NumRanks - 1)

\* Paths are sequences of components (pathlib.Path).
parent(path) == SubSeq(path, 1, Len(path) - 1)
child(path, name) == Append(path, name)

ConfigPath == <<"cfg.yaml">>
CkptPath == <<"old_run", "last.ckpt">>
OutputDir == "out"
Project == "proj"

\* A concept is a mapping; class_set is an optional key of it.
EmptyConcept == <<>>
Concepts ==
    { EmptyConcept,
      [instance_set |-> "inst"],
      [instance_set |-> "inst", class_set |-> None],
      [instance_set |-> "inst", class_set |-> "cls"] }

\* dict.get(key): the value, or None when the key is absent.
get(mapping, key) == IF key \in DOMAIN mapping THEN mapping[key] ELSE None

\* bool(mapping): a mapping is truthy iff it has at least one key.
truthy(mapping) == DOMAIN mapping # {}

SeqsUpTo(S, n) == UNION { [1..k -> S] : k \in 0..n }

\* The contents of a config file.
ConfigBodies(maxConcepts) ==
    [ output_dir : {OutputDir},
      project : {Project},
      data : [concepts : SeqsUpTo(Concepts, maxConcepts), cache : {None, "cache.pt"}],
      prior_preservation : [enabled : BOOLEAN],
      seed : {None, "42"},
      force_disable_amp : BOOLEAN,
      loggers : [tensorboard : {None, "on"}, wandb : {None, "on"}] ]

\* The command lines click can hand to main.
ArgSets ==
    [ config_path : {NoPath, ConfigPath},
      run_id : {None, "myrun"},
      resume_ckpt_path : {NoPath, CkptPath} ]

\* ------------------------------------------------------------------ state
VARIABLES
    ranks,      \* the ranks of the launched processes
    args,       \* the command line, the same for every process
    files,      \* file system: path -> contents
    dirs,       \* file system: the directories created by the run
    pc,         \* per process: the next step of main
    config,     \* per process: the resolved configuration, or Null
    loggers,    \* per process: the logger list, or Null
    run_dir,    \* per process: the run directory, or NoPath
    trainer,    \* per process: the pl.Trainer, or Null
    model,      \* per process: the StableDiffusionModel, or Null
    seeded,     \* per process: the seed given to pl.seed_everything, or None
    err,        \* per process: the exception that ended main, or None
    log,        \* per process: the messages it emitted (rank_zero_warn/info)
    trace       \* per process: the calls main has made, in order

vars == <<ranks, args, files, dirs, pc, config, loggers, run_dir, trainer,
          model, seeded, err, log, trace>>

\* ------------------------------------------------------------------ helpers
is_file(fs, path) == path \in DOMAIN fs

write_file(fs, path, contents) ==
    [x \in (DOMAIN fs) \cup {path} |-> IF x = path THEN contents ELSE fs[x]]

\* Mutant of rank_zero_only: the decorator left off, the function runs on every rank.
rank_zero_only_always(rank) == rank \in Ranks

\* rank_zero_only: the wrapped function runs only when the process rank is 0.
rank_zero_only(rank) == rank = 0

\* rank_zero_info / rank_zero_warn: the message, on rank zero only.
rank_zero_log(rank, msg) == IF rank_zero_only(rank) THEN <<msg>> ELSE <<>>

\* configs.load_with_defaults(path): the file merged over the defaults layer.
load_with_defaults(fs, path) ==
    [source |-> path, defaults |-> TRUE, cfg |-> fs[path]]

\* OmegaConf.load(path): the file verbatim.
OmegaConf_load(fs, path) ==
    [source |-> path, defaults |-> FALSE, cfg |-> fs[path]]

\* get_resuming_config(ckpt_path)
get_resuming_config(fs, ckpt_path) ==
    LET config_yaml == child(parent(ckpt_path), "config.yaml") IN
    IF ~ is_file(fs, config_yaml)
    THEN [err |-> "ConfigNotFound", config |-> Null]
    ELSE [err |-> None, config |-> OmegaConf_load(fs, config_yaml)]

\* Mutant of resolve_config: with neither option the bare defaults are used
\* instead of raising.
resolve_config_fallback(fs, a) ==
    IF a.config_path # NoPath
    THEN [err |-> None, config |-> load_with_defaults(fs, a.config_path)]
    ELSE IF a.resume_ckpt_path # NoPath
    THEN get_resuming_config(fs, a.resume_ckpt_path)
    ELSE [err |-> None,
          config |-> [source |-> NoPath, defaults |-> TRUE,
                      cfg |-> [output_dir |-> OutputDir, project |-> Project,
                               data |-> [concepts |-> <<>>, cache |-> None],
                               prior_preservation |-> [enabled |-> FALSE],
                               seed |-> None, force_disable_amp |-> FALSE,
                               loggers |-> [tensorboard |-> None, wandb |-> None]]]]

\* main, lines 94-99: which configuration the command line resolves to.
resolve_config(fs, a) ==
    IF a.config_path # NoPath
    THEN [err |-> None, config |-> load_with_defaults(fs, a.config_path)]
    ELSE IF a.resume_ckpt_path # NoPath
    THEN get_resuming_config(fs, a.resume_ckpt_path)
    ELSE [err |-> "EitherResumeOrConfig", config |-> Null]

\* generate_run_id(): the wall clock formatted as %y%m%d-%H%M%S.
generate_run_id == "yymmdd-HHMMSS"

\* get_loggers(config)
get_loggers(cfg) ==
    LET project_dir == <<cfg.output_dir, cfg.project>> IN
    [train_loggers |->
    (IF get(cfg.loggers, "tensorboard") # None
     THEN <<[kind |-> "TensorBoardLogger", save_dir |-> project_dir]>> ELSE <<>>)
    \o
    (IF get(cfg.loggers, "wandb") # None
     THEN <<[kind |-> "WandbLogger", save_dir |-> project_dir]>> ELSE <<>>)]

\* any(concepts): some concept is truthy.
have_concepts(concepts) == \E i \in 1..Len(concepts) : truthy(concepts[i])

\* Mutant of concept_cache_conflict: the cache test inverted.
concept_cache_conflict_inverted(cfg) ==
    have_concepts(cfg.data.concepts) /\ cfg.data.cache = None

\* line 36: concepts are set and a cache is specified.
concept_cache_conflict(cfg) ==
    have_concepts(cfg.data.concepts) /\ cfg.data.cache # None

\* line 38: the branch that raises "No concept found and cache file is not specified".
no_concept(cfg) ==
    ~ concept_cache_conflict(cfg) /\ ~ have_concepts(cfg.data.concepts)

\* line 43: any truthy concept whose class_set is not None.
any_class_set(concepts) ==
    \E i \in 1..Len(concepts) :
        get(concepts[i], "class_set") # None /\ truthy(concepts[i])

\* Mutant of all_class_set: any() written for all().
all_class_set_any(concepts) ==
    \E i \in 1..Len(concepts) : get(concepts[i], "class_set") # None

\* line 45: all concepts have a class_set that is not None.
all_class_set(concepts) ==
    \A i \in 1..Len(concepts) : get(concepts[i], "class_set") # None

\* The body of verify_config: the messages it emits and the exception it raises.
verify_config_body(cfg) ==
    LET concepts == cfg.data.concepts
        first == IF concept_cache_conflict(cfg) THEN <<"warn_cache">> ELSE <<>>
    IN  IF no_concept(cfg)
        THEN [err |-> "NoConcept", log |-> first]
        ELSE IF ~ cfg.prior_preservation.enabled
        THEN [err |-> None,
              log |-> first \o <<"info_standard">> \o
                      (IF any_class_set(concepts) THEN <<"warn_class_set">> ELSE <<>>)]
        ELSE IF ~ all_class_set(concepts)
        THEN [err |-> "PriorPreservation", log |-> first]
        ELSE [err |-> None, log |-> first]

\* verify_config under @rank_zero_only: a no-op returning None off rank zero.
verify_config(rank, cfg) ==
    IF rank_zero_only(rank)
    THEN verify_config_body(cfg)
    ELSE [err |-> None, log |-> <<>>]

\* An exception raised in main propagates: main ends there.
after_call(e, next) == IF e # None THEN "failed" ELSE next

\* Mutant of after_verify: the exception is caught and main goes on.
after_verify_swallowed(e) == "seed"

\* line 120: verify_config's exception is not caught, so main ends at it.
after_verify(e) == after_call(e, "seed")

\* Mutant of tune_call: the resume test inverted.
tune_call_inverted(a) == IF a.resume_ckpt_path # NoPath THEN "tune" ELSE "skip_tune"

\* lines 132-135: tune unless resuming.
tune_call(a) == IF a.resume_ckpt_path = NoPath THEN "tune" ELSE "skip_tune"

\* lines 103-106: the run id given or generated, and the run directory.
run_dir_of(cfg, run_id) ==
    <<cfg.output_dir, cfg.project, IF run_id = None THEN generate_run_id ELSE run_id>>

\* lines 109-118: the trainer with its loggers and its two callbacks.
new_trainer(train_loggers, dir) ==
    [logger |-> train_loggers,
     checkpoint_dirpath |-> dir,
     sample_dir |-> child(dir, "samples"),
     precision_plugin |-> "default"]

\* ------------------------------------------------------------------ steps of main
\* lines 94-99
ResolveConfig(p) ==
    /\ pc[p] = "resolve"
    /\ LET r == resolve_config(files, args) IN
        /\ config' = [config EXCEPT ![p] = r.config]
        /\ err' = [err EXCEPT ![p] = r.err]
        /\ pc' = [pc EXCEPT ![p] = after_call(r.err, "loggers")]
        /\ trace' = [trace EXCEPT ![p] =
              IF args.config_path # NoPath THEN Append(@, "load_with_defaults")
              ELSE IF args.resume_ckpt_path # NoPath THEN Append(@, "get_resuming_config")
              ELSE @]
    /\ UNCHANGED <<ranks, args, files, dirs, loggers, run_dir, trainer, model, seeded, log>>

\* line 101
GetLoggers(p) ==
    /\ pc[p] = "loggers"
    /\ loggers' = [loggers EXCEPT ![p] = get_loggers(config[p].cfg)]
    /\ trace' = [trace EXCEPT ![p] = Append(@, "get_loggers")]
    /\ pc' = [pc EXCEPT ![p] = "run_dir"]
    /\ UNCHANGED <<ranks, args, files, dirs, config, run_dir, trainer, model, seeded, err, log>>

\* lines 103-107
MakeRunDir(p) ==
    /\ pc[p] = "run_dir"
    /\ LET d == run_dir_of(config[p].cfg, args.run_id)
       IN /\ run_dir' = [run_dir EXCEPT ![p] = d]
          /\ dirs' = dirs \cup {d}
    /\ trace' = [trace EXCEPT ![p] = Append(@, "mkdir")]
    /\ pc' = [pc EXCEPT ![p] = "trainer"]
    /\ UNCHANGED <<ranks, args, files, config, loggers, trainer, model, seeded, err, log>>

\* lines 109-118
BuildTrainer(p) ==
    /\ pc[p] = "trainer"
    /\ trainer' = [trainer EXCEPT ![p] = new_trainer(loggers[p], run_dir[p])]
    /\ trace' = [trace EXCEPT ![p] = Append(@, "Trainer")]
    /\ pc' = [pc EXCEPT ![p] = "verify"]
    /\ UNCHANGED <<ranks, args, files, dirs, config, loggers, run_dir, model, seeded, err, log>>

\* lines 120-121
VerifyConfig(p) ==
    /\ pc[p] = "verify"
    /\ LET v == verify_config(p, config[p].cfg) IN
        /\ err' = [err EXCEPT ![p] = v.err]
        /\ log' = [log EXCEPT ![p] =
              @ \o v.log \o (IF v.err = None THEN rank_zero_log(p, "info_run_id") ELSE <<>>)]
        /\ pc' = [pc EXCEPT ![p] = after_verify(v.err)]
    /\ trace' = [trace EXCEPT ![p] = Append(@, "verify_config")]
    /\ UNCHANGED <<ranks, args, files, dirs, config, loggers, run_dir, trainer, model, seeded>>

\* lines 123-124
SeedEverything(p) ==
    /\ pc[p] = "seed"
    /\ seeded' = [seeded EXCEPT ![p] = config[p].cfg.seed]
    /\ trace' = [trace EXCEPT ![p] =
          IF config[p].cfg.seed # None THEN Append(@, "seed_everything") ELSE @]
    /\ pc' = [pc EXCEPT ![p] = "model"]
    /\ UNCHANGED <<ranks, args, files, dirs, config, loggers, run_dir, trainer, model, err, log>>

\* line 126
BuildModel(p) ==
    /\ pc[p] = "model"
    /\ model' = [model EXCEPT ![p] = [unet |-> "float32"]]
    /\ trace' = [trace EXCEPT ![p] = Append(@, "from_config")]
    /\ pc' = [pc EXCEPT ![p] = "amp"]
    /\ UNCHANGED <<ranks, args, files, dirs, config, loggers, run_dir, trainer, seeded, err, log>>

\* lines 128-130, do_disable_amp_hack
DisableAmp(p) ==
    /\ pc[p] = "amp"
    /\ IF config[p].cfg.force_disable_amp
       THEN /\ log' = [log EXCEPT ![p] = @ \o rank_zero_log(p, "info_amp")]
            /\ model' = [model EXCEPT ![p] = [unet |-> "trainer.precision"]]
            /\ trainer' = [trainer EXCEPT ![p].precision_plugin = "PrecisionPlugin"]
            /\ trace' = [trace EXCEPT ![p] = Append(@, "do_disable_amp_hack")]
       ELSE UNCHANGED <<log, model, trainer, trace>>
    /\ pc' = [pc EXCEPT ![p] = "tune"]
    /\ UNCHANGED <<ranks, args, files, dirs, config, loggers, run_dir, seeded, err>>

\* lines 132-135
TuneOrSkip(p) ==
    /\ pc[p] = "tune"
    /\ trace' = [trace EXCEPT ![p] = Append(@, tune_call(args))]
    /\ log' = [log EXCEPT ![p] =
          IF tune_call(args) = "tune" THEN @ ELSE @ \o rank_zero_log(p, "info_resume")]
    /\ pc' = [pc EXCEPT ![p] = "save"]
    /\ UNCHANGED <<ranks, args, files, dirs, config, loggers, run_dir, trainer, model, seeded, err>>

\* line 137
SaveConfig(p) ==
    /\ pc[p] = "save"
    /\ files' = write_file(files, child(run_dir[p], "config.yaml"), config[p].cfg)
    /\ trace' = [trace EXCEPT ![p] = Append(@, "save")]
    /\ pc' = [pc EXCEPT ![p] = "fit"]
    /\ UNCHANGED <<ranks, args, dirs, config, loggers, run_dir, trainer, model, seeded, err, log>>

\* line 139
Fit(p) ==
    /\ pc[p] = "fit"
    /\ trace' = [trace EXCEPT ![p] = Append(@, "fit")]
    /\ pc' = [pc EXCEPT ![p] = "fitting"]
    /\ UNCHANGED <<ranks, args, files, dirs, config, loggers, run_dir, trainer, model, seeded, err, log>>

\* ------------------------------------------------------------------ specifications
\* The file system a command line meets: click requires --config and --resume
\* to name existing files; the checkpoint's sibling config.yaml may be absent.
FileSystems(a, body) ==
    LET base == IF a.config_path # NoPath THEN (ConfigPath :> body) ELSE <<>>
        ckpt == IF a.resume_ckpt_path # NoPath THEN (CkptPath :> [checkpoint |-> TRUE]) ELSE <<>>
        sibling == child(parent(CkptPath), "config.yaml")
    IN  IF a.resume_ckpt_path # NoPath
        THEN { base @@ ckpt, base @@ ckpt @@ (sibling :> body) }
        ELSE { base }

\* Every process is at the entry of main.
Start(rs, a, fs) ==
    /\ ranks = rs
    /\ args = a
    /\ files = fs
    /\ dirs = {}
    /\ pc = [p \in rs |-> "resolve"]
    /\ config = [p \in rs |-> Null]
    /\ loggers = [p \in rs |-> Null]
    /\ run_dir = [p \in rs |-> NoPath]
    /\ trainer = [p \in rs |-> Null]
    /\ model = [p \in rs |-> Null]
    /\ seeded = [p \in rs |-> None]
    /\ err = [p \in rs |-> None]
    /\ log = [p \in rs |-> <<>>]
    /\ trace = [p \in rs |-> <<>>]

\* One process of a launch, of any rank, with any command line and config.
Init ==
    \E r \in Ranks, a \in ArgSets, body \in ConfigBodies(MaxRunConcepts) :
        \E fs \in FileSystems(a, body) : Start({r}, a, fs)

Next ==
    \/ \E p \in ranks : ResolveConfig(p)
    \/ \E p \in ranks : GetLoggers(p)
    \/ \E p \in ranks : MakeRunDir(p)
    \/ \E p \in ranks : BuildTrainer(p)
    \/ \E p \in ranks : VerifyConfig(p)
    \/ \E p \in ranks : SeedEverything(p)
    \/ \E p \in ranks : BuildModel(p)
    \/ \E p \in ranks : DisableAmp(p)
    \/ \E p \in ranks : TuneOrSkip(p)
    \/ \E p \in ranks : SaveConfig(p)
    \/ \E p \in ranks : Fit(p)

Spec == Init /\ [][Next]_vars

\* ---- verify_config alone
\* A process that ran main with --config cfg.yaml --run-id myrun and is about
\* to call verify_config (line 120), for every config body and every rank.
AtVerify(r, body) ==
    LET a == [config_path |-> ConfigPath, run_id |-> "myrun", resume_ckpt_path |-> NoPath]
        fs == (ConfigPath :> body)
        c == resolve_config(fs, a).config
        d == run_dir_of(c.cfg, a.run_id)
    IN  /\ ranks = {r}
        /\ args = a
        /\ files = fs
        /\ dirs = {d}
        /\ pc = (r :> "verify")
        /\ config = (r :> c)
        /\ loggers = (r :> get_loggers(c.cfg))
        /\ run_dir = (r :> d)
        /\ trainer = (r :> new_trainer(get_loggers(c.cfg), d))
        /\ model = (r :> Null)
        /\ seeded = (r :> None)
        /\ err = (r :> None)
        /\ log = (r :> <<>>)
        /\ trace = (r :> <<"load_with_defaults", "get_loggers", "mkdir", "Trainer">>)

VerifyInit == \E r \in Ranks, body \in ConfigBodies(MaxConcepts) : AtVerify(r, body)

VerifyNext == \E p \in ranks : VerifyConfig(p)

VerifySpec == VerifyInit /\ [][VerifyNext]_vars

\* ---- a distributed launch
\* The config bodies of a distributed launch: every validation outcome, with the
\* settings that only act inside one process (seed, AMP, loggers) left unset.
DistBodies ==
    { b \in ConfigBodies(1) :
        /\ b.seed = None
        /\ ~ b.force_disable_amp
        /\ b.loggers = [tensorboard |-> None, wandb |-> None] }

\* Every rank runs main with the same command line.
DistInit ==
    \E a \in ArgSets, body \in DistBodies :
        \E fs \in FileSystems(a, body) : Start(Ranks, a, fs)

DistSpec == DistInit /\ [][Next]_vars

\* ------------------------------------------------------------------ claims
Called(p, call) == \E i \in 1..Len(trace[p]) : trace[p][i] = call

Count(s, x) == Cardinality({ i \in 1..Len(s) : s[i] = x })

ValidationErrors == {"NoConcept", "PriorPreservation"}

\* The rank-zero process has returned from (or raised in) verify_config.
Verified(p) == p = 0 /\ Called(p, "verify_config")

NonNullClassSet(c) == "class_set" \in DOMAIN c /\ c["class_set"] # None

EveryClassSet(cs) == \A i \in 1..Len(cs) : NonNullClassSet(cs[i])

SomeNonEmptyConcept(cs) == \E i \in 1..Len(cs) : DOMAIN cs[i] # {}

SiblingConfig == child(parent(CkptPath), "config.yaml")

\* C1 (as claimed): whenever a resume path is supplied, the resolved
\* configuration is the checkpoint's sibling config.yaml, loaded verbatim (no
\* defaults merge), also when --config is supplied as well.
C1_ResumeLoadsSiblingConfig ==
    \A p \in ranks :
        (args.resume_ckpt_path # NoPath /\ config[p] # Null) =>
            /\ config[p].source = SiblingConfig
            /\ ~ config[p].defaults

C3_NoConceptIffEmptyAndNoCache ==
    \A p \in ranks :
        Verified(p) =>
            ((err[p] = "NoConcept") <=>
                (Len(config[p].cfg.data.concepts) = 0 /\ config[p].cfg.data.cache = None))

\* C4 (as claimed): with a non-empty concepts list (read here as: of concepts
\* that are themselves non-empty) and a cache set, verify_config succeeds and
\* emits exactly one conflict warning, whatever the prior-preservation flag and
\* the class_set values.
C4_ConflictAlwaysSucceeds ==
    \A p \in ranks :
        (Verified(p) /\ Len(config[p].cfg.data.concepts) > 0
                     /\ \A i \in 1..Len(config[p].cfg.data.concepts) :
                            DOMAIN config[p].cfg.data.concepts[i] # {}
                     /\ config[p].cfg.data.cache # None) =>
            /\ err[p] = None
            /\ Count(log[p], "warn_cache") = 1

\* C4 (amended): on the rank-zero process, with at least one non-empty concept
\* and a cache set, verify_config emits exactly one conflict warning; it
\* succeeds iff prior preservation is disabled or every concept has a non-null
\* class_set, and otherwise raises the prior-preservation error.
C4_ConflictWarnsOnce ==
    \A p \in ranks :
        (Verified(p) /\ SomeNonEmptyConcept(config[p].cfg.data.concepts)
                     /\ config[p].cfg.data.cache # None) =>
            /\ Count(log[p], "warn_cache") = 1
            /\ (err[p] = None) <=>
                  (~ config[p].cfg.prior_preservation.enabled
                   \/ EveryClassSet(config[p].cfg.data.concepts))
            /\ err[p] # None => err[p] = "PriorPreservation"

\* C4 witness: concepts and a cache, prior preservation on, the warning emitted
\* once and then the prior-preservation error.
C4_Witness ==
    \E p \in ranks :
        /\ Verified(p)
        /\ SomeNonEmptyConcept(config[p].cfg.data.concepts)
        /\ config[p].cfg.data.cache # None
        /\ Count(log[p], "warn_cache") = 1
        /\ err[p] = "PriorPreservation"

\* C5: with neither a config path nor a resume path, main fails with the
\* must-specify-one error before any resource exists: no logger, no run
\* directory, no trainer, no model, no file written, nothing logged.
C5_NeitherFailsFirst ==
    \A p \in ranks :
        (args.config_path = NoPath /\ args.resume_ckpt_path = NoPath /\ pc[p] # "resolve") =>
            /\ pc[p] = "failed"
            /\ err[p] = "EitherResumeOrConfig"
            /\ config[p] = Null
            /\ loggers[p] = Null
            /\ run_dir[p] = NoPath
            /\ dirs = {}
            /\ trainer[p] = Null
            /\ model[p] = Null
            /\ DOMAIN files = {}
            /\ trace[p] = <<>>
            /\ log[p] = <<>>

\* C5 witness: a process that failed with the must-specify-one error.
C5_Witness ==
    \E p \in ranks : pc[p] = "failed" /\ err[p] = "EitherResumeOrConfig"

\* C6 (as claimed): with a resume path whose sibling config.yaml is missing,
\* main aborts with the config-not-found error before any directory is created
\* and before trainer, model, tune, save or fit.
C6_MissingSiblingAborts ==
    \A p \in ranks :
        (args.resume_ckpt_path # NoPath /\ ~ is_file(files, SiblingConfig)
                                        /\ pc[p] # "resolve") =>
            /\ pc[p] = "failed"
            /\ err[p] = "ConfigNotFound"
            /\ dirs = {}
            /\ trainer[p] = Null
            /\ model[p] = Null
            /\ ~ Called(p, "tune") /\ ~ Called(p, "save") /\ ~ Called(p, "fit")

MainCalls(p) ==
    LET NotAmp(c) == c # "do_disable_amp_hack" IN SelectSeq(trace[p], NotAmp)

\* The order the run driver prescribes; seeding is the call to seed_everything.
ExpectedCalls(p, seeding) ==
    <<IF args.config_path # NoPath THEN "load_with_defaults" ELSE "get_resuming_config",
      "get_loggers", "mkdir", "Trainer", "verify_config">>
    \o (IF seeding THEN <<"seed_everything">> ELSE <<>>)
    \o <<"from_config",
         IF args.resume_ckpt_path = NoPath THEN "tune" ELSE "skip_tune",
         "save", "fit">>

\* C8 (as claimed): every run that reaches fit has passed once each, in order,
\* through config resolution, loggers, run directory, trainer, validation,
\* seeding, model, tune or skip-tune (tune iff no resume path), save, fit.
C8_FitAfterEveryStep ==
    \A p \in ranks : pc[p] = "fitting" => MainCalls(p) = ExpectedCalls(p, TRUE)

\* C8 (amended): the same order, each step once, except that seeding happens
\* only when config.seed is not null and is skipped otherwise; tune is called
\* iff no resume path was given, and config.yaml is written before fit.
C8_FitAfterEveryStepSeedOptional ==
    \A p \in ranks :
        pc[p] = "fitting" =>
            /\ MainCalls(p) = ExpectedCalls(p, config[p].cfg.seed # None)
            /\ is_file(files, child(run_dir[p], "config.yaml"))
            /\ seeded[p] = config[p].cfg.seed

\* C8 witness: a resumed run without a seed reached fit, tune skipped.
C8_Witness ==
    \E p \in ranks :
        /\ pc[p] = "fitting"
        /\ args.resume_ckpt_path # NoPath
        /\ config[p].cfg.seed = None
        /\ Called(p, "skip_tune")

\* C9 (as claimed): in a distributed launch config.yaml is written exactly
\* once, by the rank-zero process only.
C9_OnlyRankZeroSaves ==
    /\ \A p \in ranks : Called(p, "save") => p = 0
    /\ Cardinality({ p \in ranks : Called(p, "save") }) <= 1

\* A config that violates a fatal rule: no concept and no cache, or prior
\* preservation enabled with non-empty concepts of which one lacks class_set.
Fatal(cfg) ==
    \/ Len(cfg.data.concepts) = 0 /\ cfg.data.cache = None
    \/ /\ cfg.prior_preservation.enabled
       /\ SomeNonEmptyConcept(cfg.data.concepts)
       /\ ~ EveryClassSet(cfg.data.concepts)

\* C10: verify_config's checks run on the rank-zero process only: a non-zero
\* rank never raises a validation error and never logs, so it is never stopped
\* at validation; at most one process warns or fails validation; and with a
\* fatal config rank zero aborts at validation.
C10_ValidationOnRankZeroOnly ==
    /\ \A p \in ranks :
          p # 0 =>
            /\ err[p] \notin ValidationErrors
            /\ log[p] = <<>>
            /\ Called(p, "verify_config") => pc[p] # "failed"
    /\ Cardinality({ p \in ranks : log[p] # <<>> \/ err[p] \in ValidationErrors }) <= 1
    /\ \A p \in ranks :
          (Verified(p) /\ Fatal(config[p].cfg)) =>
              pc[p] = "failed" /\ err[p] \in ValidationErrors

\* C10 witness: rank zero aborted at validation while another rank, with the
\* same fatal config, built its model, wrote config.yaml and reached fit.
C10_Witness ==
    /\ 0 \in ranks /\ pc[0] = "failed" /\ err[0] \in ValidationErrors
    /\ \E p \in ranks :
          /\ p # 0
          /\ pc[p] = "fitting"
          /\ Fatal(config[p].cfg)
          /\ model[p] # Null
          /\ Called(p, "save")

====
